---- MODULE Spec2Model ----
(***************************************************************************)
(* Model of src/OpenCVTests/electrodeDetection.py: a webcam capture loop   *)
(* that matches a fixed grayscale template against every frame, draws one  *)
(* rectangle per score-surface position clearing the threshold and shows   *)
(* the annotated frame.                                                    *)
(*                                                                         *)
(* Images are represented by their shape (rows, cols); Python's None is    *)
(* the shape with zero rows and zero columns.  Scores of the score surface *)
(* are integers in hundredths (0.3 is 30).  The camera, the template file, *)
(* the score surface returned by cv2.matchTemplate and the keyboard are    *)
(* the environment: their values are chosen with \E from bounded sets.     *)
(***************************************************************************)
EXTENDS Integers, Sequences, FiniteSets

\* ---------------------------------------------------------------- bounds
MaxRows == 2
MaxCols == 2
MaxFrames == 3

\* ------------------------------------------------------ program constants
\* threshold = 0.3, in hundredths
threshold == 30
\* ord('q')
OrdQ == 113
\* key code of a key other than q ('a')
OrdA == 97
\* cv2.waitKey returns -1 when no key was pressed within the delay
NoKey == 0 - 1
\* rectangle border thickness
thickness == 2
\* exit status of an interpreter that terminates on an uncaught exception
UncaughtStatus == 1
\* exit status of exit() called without an argument (SystemExit(None)),
\* and of a script that runs off its end
ExitNoArgStatus == 0
\* exitStatus while the process is still running
Running == 0 - 1

\* rectangle colour (0,0,255), BGR
color == <<0, 0, 255>>

NoneImg == [rows |-> 0, cols |-> 0]
Shapes == [rows : 1..MaxRows, cols : 1..MaxCols]
\* what cv2.imread can return: None (missing/unreadable file) or an image
TemplateValues == {NoneImg} \cup Shapes
\* what vidcap.read() can return as image on success
FrameValues == Shapes
\* scores around the threshold, in hundredths
Scores == {threshold - 1, threshold, threshold + 1}
\* thresholds a matcher could be run with, for comparing match sets
Thresholds == <<threshold - 1, threshold, threshold + 1, threshold + 2>>
Keys == {NoKey, OrdQ, OrdA}

NoRes == [rows |-> 0, cols |-> 0, at |-> [p \in {} |-> 0]]

VARIABLES
  pc,              \* position of main(): open, load, read, process, inc, waitKey, sleep, exited
  vidcapOpened,    \* vidcap.isOpened()
  template,        \* main's template
  count,           \* main's count
  success,         \* main's success: "unbound", "True", "False"
  image,           \* main's image (shape), NoneImg when unbound or read failed
  draws,           \* rectangles drawn on image, in drawing order
  res,             \* process_image's res (a local: NoRes once the call is left)
  key,             \* value of the last cv2.waitKey(1)
  fault,           \* uncaught exception: "none", "AttributeError", "cv2.error"
  exitStatus,      \* process exit status, Running while running
  stdout,          \* lines printed
  loads,           \* number of cv2.imread calls
  pulls,           \* number of vidcap.read() calls
  calls,           \* number of process_image calls
  matches,         \* number of cv2.matchTemplate calls that returned
  shown,           \* number of cv2.imshow calls
  polls,           \* number of cv2.waitKey calls
  sleeps,          \* number of time.sleep calls
  loadedTemplate,  \* value returned by cv2.imread
  passedTemplate   \* template argument of the last process_image call

vars == <<pc, vidcapOpened, template, count, success, image, draws, res, key,
          fault, exitStatus, stdout, loads, pulls, calls, matches, shown,
          polls, sleeps, loadedTemplate, passedTemplate>>

\* ------------------------------------------------------- process_image
\* w, h = template.shape[::-1]
TemplateWHNoReverse(t) == <<t.rows, t.cols>>
TemplateWH(t) == <<t.cols, t.rows>>

\* res >= threshold, elementwise
MeetsFlipped(score, thr) == score <= thr
Meets(score, thr) == score >= thr

\* cv2.matchTemplate: the roles of image and template are exchanged when the
\* template exceeds the image; the call raises cv2.error when the exchange
\* does not make the template fit either
NeedSwap(img, templ) == img.rows < templ.rows \/ img.cols < templ.cols
MatchTemplateFails(img, templ) ==
  NeedSwap(img, templ) /\ ~(img.rows <= templ.rows /\ img.cols <= templ.cols)
ResShape(img, templ) ==
  IF NeedSwap(img, templ)
  THEN [rows |-> templ.rows - img.rows + 1, cols |-> templ.cols - img.cols + 1]
  ELSE [rows |-> img.rows - templ.rows + 1, cols |-> img.cols - templ.cols + 1]
\* the score surfaces matchTemplate can return for a result shape
Surfaces(shape) ==
  { [rows |-> shape.rows, cols |-> shape.cols, at |-> f] :
      f \in [ (0..(shape.rows - 1)) \X (0..(shape.cols - 1)) -> Scores ] }

\* np.where(res >= thr): the index arrays (rows, cols) of the qualifying
\* entries, in row-major order
RECURSIVE WhereFrom(_, _, _, _)
WhereFrom(r, thr, i, loc) ==
  IF i >= r.rows * r.cols THEN loc
  ELSE LET y == i \div r.cols
           x == i % r.cols
       IN  IF Meets(r.at[<<y, x>>], thr)
           THEN WhereFrom(r, thr, i + 1, <<Append(loc[1], y), Append(loc[2], x)>>)
           ELSE WhereFrom(r, thr, i + 1, loc)
Where(r, thr) == WhereFrom(r, thr, 0, <<(<<>>), (<<>>)>>)

\* loc[::-1]
Reversed(loc) == <<loc[2], loc[1]>>
\* zip(*loc)
Zip(loc) == [i \in 1..Len(loc[1]) |-> <<loc[1][i], loc[2][i]>>]

\* cv2.rectangle(img_rgb, pt, (pt[0] + w, pt[1] + h), (0,0,255), 2)
Rectangle(pt, w, h) ==
  [pt1 |-> pt, pt2 |-> <<pt[1] + w, pt[2] + h>>, color |-> color, thickness |-> thickness]

\* for pt in zip(*loc[::-1]): cv2.rectangle(...)
DrawMatches(r, t) ==
  LET wh  == TemplateWH(t)
      pts == Zip(Reversed(Where(r, threshold)))
  IN  [i \in 1..Len(pts) |-> Rectangle(pts[i], wh[1], wh[2])]

\* the Match Set of a score surface at a threshold: the (x, y) points the
\* drawing loop iterates over
MatchSet(r, thr) ==
  LET pts == Zip(Reversed(Where(r, thr))) IN { pts[i] : i \in 1..Len(pts) }

\* ------------------------------------------------------------------ main
Init ==
  /\ pc = "open"
  /\ vidcapOpened = FALSE
  /\ template = NoneImg
  /\ count = 0
  /\ success = "unbound"
  /\ image = NoneImg
  /\ draws = <<>>
  /\ res = NoRes
  /\ key = NoKey
  /\ fault = "none"
  /\ exitStatus = Running
  /\ stdout = <<>>
  /\ loads = 0
  /\ pulls = 0
  /\ calls = 0
  /\ matches = 0
  /\ shown = 0
  /\ polls = 0
  /\ sleeps = 0
  /\ loadedTemplate = NoneImg
  /\ passedTemplate = NoneImg

\* vidcap = cv2.VideoCapture(0); vidcap.isOpened() is true
CameraOpened ==
  /\ pc = "open"
  /\ vidcapOpened' = TRUE
  /\ pc' = "load"
  /\ UNCHANGED <<template, count, success, image, draws, res, key, fault,
                 exitStatus, stdout, loads, pulls, calls, matches, shown,
                 polls, sleeps, loadedTemplate, passedTemplate>>

\* vidcap.isOpened() is false: print("Cannot open camera"); exit()
CameraOpenFailedNoExit ==
  /\ pc = "open"
  /\ vidcapOpened' = FALSE
  /\ stdout' = Append(stdout, "Cannot open camera")
  /\ pc' = "load"
  /\ UNCHANGED <<template, count, success, image, draws, res, key, fault,
                 exitStatus, loads, pulls, calls, matches, shown, polls,
                 sleeps, loadedTemplate, passedTemplate>>
CameraOpenFailed ==
  /\ pc = "open"
  /\ vidcapOpened' = FALSE
  /\ stdout' = Append(stdout, "Cannot open camera")
  /\ exitStatus' = ExitNoArgStatus
  /\ pc' = "exited"
  /\ UNCHANGED <<template, count, success, image, draws, res, key, fault,
                 loads, pulls, calls, matches, shown, polls, sleeps,
                 loadedTemplate, passedTemplate>>

\* template = cv2.imread(path, 0); count = 0
LoadTemplateChecked ==
  /\ pc = "load"
  /\ \E t \in TemplateValues :
       /\ template' = t
       /\ loadedTemplate' = t
       /\ IF t = NoneImg
          THEN pc' = "exited" /\ exitStatus' = UncaughtStatus
          ELSE pc' = "read" /\ UNCHANGED exitStatus
  /\ loads' = loads + 1
  /\ count' = 0
  /\ UNCHANGED <<vidcapOpened, success, image, draws, res, key, fault,
                 stdout, pulls, calls, matches, shown, polls, sleeps,
                 passedTemplate>>
LoadTemplate ==
  /\ pc = "load"
  /\ \E t \in TemplateValues :
       /\ template' = t
       /\ loadedTemplate' = t
  /\ loads' = loads + 1
  /\ count' = 0
  /\ pc' = "read"
  /\ UNCHANGED <<vidcapOpened, success, image, draws, res, key, fault,
                 exitStatus, stdout, pulls, calls, matches, shown, polls,
                 sleeps, passedTemplate>>

\* success, image = vidcap.read() with success true; print(...)
ReadFrame ==
  /\ pc = "read"
  /\ vidcapOpened
  /\ pulls < MaxFrames
  /\ \E f \in FrameValues : image' = f
  /\ success' = "True"
  /\ draws' = <<>>
  /\ res' = NoRes
  /\ pulls' = pulls + 1
  /\ stdout' = Append(stdout, "Read a new frame:  True")
  /\ pc' = "process"
  /\ UNCHANGED <<vidcapOpened, template, count, key, fault, exitStatus, loads,
                 calls, matches, shown, polls, sleeps, loadedTemplate,
                 passedTemplate>>

\* success, image = vidcap.read() with success false; break, and main returns
ReadFailedNoBreak ==
  /\ pc = "read"
  /\ success' = "False"
  /\ image' = NoneImg
  /\ draws' = <<>>
  /\ res' = NoRes
  /\ pulls' = pulls + 1
  /\ pc' = "process"
  /\ UNCHANGED <<vidcapOpened, template, count, key, fault, exitStatus, stdout,
                 loads, calls, matches, shown, polls, sleeps, loadedTemplate,
                 passedTemplate>>
ReadFailed ==
  /\ pc = "read"
  /\ success' = "False"
  /\ image' = NoneImg
  /\ draws' = <<>>
  /\ res' = NoRes
  /\ pulls' = pulls + 1
  /\ exitStatus' = ExitNoArgStatus
  /\ pc' = "exited"
  /\ UNCHANGED <<vidcapOpened, template, count, key, fault, stdout, loads,
                 calls, matches, shown, polls, sleeps, loadedTemplate,
                 passedTemplate>>

\* process_image(image, template, count)
ProcessImage ==
  /\ pc = "process"
  /\ calls' = calls + 1
  /\ passedTemplate' = template
  /\ IF template = NoneImg
     THEN \* template.shape on None
          /\ fault' = "AttributeError"
          /\ exitStatus' = UncaughtStatus
          /\ pc' = "exited"
          /\ UNCHANGED <<draws, res, matches, shown>>
     ELSE IF MatchTemplateFails(image, template)
     THEN /\ fault' = "cv2.error"
          /\ exitStatus' = UncaughtStatus
          /\ pc' = "exited"
          /\ UNCHANGED <<draws, res, matches, shown>>
     ELSE /\ \E r \in Surfaces(ResShape(image, template)) :
               /\ res' = r
               /\ draws' = DrawMatches(r, template)
          /\ matches' = matches + 1
          /\ shown' = shown + 1
          /\ pc' = "inc"
          /\ UNCHANGED <<fault, exitStatus>>
  /\ UNCHANGED <<vidcapOpened, template, count, success, image, key, stdout,
                 loads, pulls, polls, sleeps, loadedTemplate>>

\* process_image has returned (its locals are gone); count += 1
IncrementTypo ==
  /\ pc = "inc"
  /\ count' = 1
  /\ res' = NoRes
  /\ pc' = "waitKey"
  /\ UNCHANGED <<vidcapOpened, template, success, image, draws, key,
                 fault, exitStatus, stdout, loads, pulls, calls, matches,
                 shown, polls, sleeps, loadedTemplate, passedTemplate>>
Increment ==
  /\ pc = "inc"
  /\ count' = count + 1
  /\ res' = NoRes
  /\ pc' = "waitKey"
  /\ UNCHANGED <<vidcapOpened, template, success, image, draws, key,
                 fault, exitStatus, stdout, loads, pulls, calls, matches,
                 shown, polls, sleeps, loadedTemplate, passedTemplate>>

\* if cv2.waitKey(1) == ord('q'): break
WaitKeyAnyKey ==
  /\ pc = "waitKey"
  /\ \E k \in Keys :
       /\ key' = k
       /\ IF k # NoKey
          THEN pc' = "exited" /\ exitStatus' = ExitNoArgStatus
          ELSE pc' = "sleep" /\ UNCHANGED exitStatus
  /\ polls' = polls + 1
  /\ UNCHANGED <<vidcapOpened, template, count, success, image, draws, res,
                 fault, stdout, loads, pulls, calls, matches, shown, sleeps,
                 loadedTemplate, passedTemplate>>
WaitKey ==
  /\ pc = "waitKey"
  /\ \E k \in Keys :
       /\ key' = k
       /\ IF k = OrdQ
          THEN pc' = "exited" /\ exitStatus' = ExitNoArgStatus
          ELSE pc' = "sleep" /\ UNCHANGED exitStatus
  /\ polls' = polls + 1
  /\ UNCHANGED <<vidcapOpened, template, count, success, image, draws, res,
                 fault, stdout, loads, pulls, calls, matches, shown, sleeps,
                 loadedTemplate, passedTemplate>>

\* time.sleep(0.1), then back to the head of the loop
SleepReload ==
  /\ pc = "sleep"
  /\ sleeps' = sleeps + 1
  /\ pc' = "load"
  /\ UNCHANGED <<vidcapOpened, template, count, success, image, draws, res,
                 key, fault, exitStatus, stdout, loads, pulls, calls, matches,
                 shown, polls, loadedTemplate, passedTemplate>>
Sleep ==
  /\ pc = "sleep"
  /\ sleeps' = sleeps + 1
  /\ pc' = "read"
  /\ UNCHANGED <<vidcapOpened, template, count, success, image, draws, res,
                 key, fault, exitStatus, stdout, loads, pulls, calls, matches,
                 shown, polls, loadedTemplate, passedTemplate>>

Next ==
  \/ CameraOpened
  \/ CameraOpenFailed
  \/ LoadTemplate
  \/ ReadFrame
  \/ ReadFailed
  \/ ProcessImage
  \/ Increment
  \/ WaitKey
  \/ Sleep

Spec == Init /\ [][Next]_vars

TypeOK ==
  /\ pc \in {"open", "load", "read", "process", "inc", "waitKey", "sleep", "exited"}
  /\ vidcapOpened \in BOOLEAN
  /\ template \in TemplateValues
  /\ count \in 0..MaxFrames
  /\ success \in {"unbound", "True", "False"}
  /\ image \in {NoneImg} \cup FrameValues
  /\ key \in Keys
  /\ fault \in {"none", "AttributeError", "cv2.error"}
  /\ exitStatus \in {Running, ExitNoArgStatus, UncaughtStatus}
\* ------------------------------------------------------------ properties
NormalExit == pc = "exited" /\ fault = "none" /\ exitStatus = ExitNoArgStatus
OpenFailedState == pc # "open" /\ ~vidcapOpened
EndOfStream == success = "False"
QuitPressed == pc = "exited" /\ polls > 0 /\ key = OrdQ /\ fault = "none" /\ success = "True"
InStdout(line) == \E i \in 1..Len(stdout) : stdout[i] = line
TemplateFits == template # NoneImg /\ image # NoneImg
                /\ template.rows <= image.rows /\ template.cols <= image.cols
TemplateTooLarge == template # NoneImg /\ image # NoneImg
                    /\ (template.cols > image.cols \/ template.rows > image.rows)
\* process_image has run to its end on the current image
Processed == calls = pulls /\ success = "True" /\ pc = "inc"

\* C1: when opening camera device 0 fails, the process prints the diagnostic
\* and is terminated; no template is loaded, no frame is pulled, no matching
\* call is made and no frame is displayed.
C1_OpenFailureStopsBeforeLoop ==
  OpenFailedState =>
    /\ pc = "exited"
    /\ InStdout("Cannot open camera")
    /\ loads = 0 /\ pulls = 0 /\ calls = 0 /\ matches = 0 /\ shown = 0 /\ polls = 0
C1_Witness == pc = "exited" /\ ~vidcapOpened /\ Len(stdout) = 1

\* C2: when the pull of iteration k fails, the loop has terminated normally
\* with exactly k-1 frames matched and displayed and no error reported, and
\* no pull is attempted after the failed one.
C2_EndOfStream ==
  /\ [](EndOfStream =>
          /\ NormalExit
          /\ matches = pulls - 1 /\ shown = pulls - 1 /\ calls = pulls - 1
          /\ ~InStdout("Cannot open camera"))
  /\ [][EndOfStream => pulls' = pulls]_vars
C2_Witness == EndOfStream /\ pulls = MaxFrames /\ shown = MaxFrames - 1

\* C3 (as stated): once the loop has been entered, it has stopped only when
\* the polled key is q or a frame pull failed.
C3_OnlyQuitOrEndOfStream ==
  (pc = "exited" /\ loads > 0) => (key = OrdQ \/ EndOfStream)
\* C3 (amended): once the loop has been entered, it has stopped only when
\* the polled key is q, a frame pull failed, or process_image raised an
\* uncaught exception.
C3_QuitEndOfStreamOrFault ==
  (pc = "exited" /\ loads > 0) =>
    \/ (key = OrdQ /\ polls > 0 /\ fault = "none")
    \/ (EndOfStream /\ fault = "none")
    \/ (fault # "none" /\ calls = pulls /\ shown = calls - 1)
C3_Witness == pc = "exited" /\ fault = "cv2.error" /\ shown > 0 /\ key = OrdA

\* C4: camera-open failure ends the process with a message and an exit
\* status other than the success status 0.
C4_OpenFailureNonZeroExit ==
  (pc = "exited" /\ ~vidcapOpened) =>
    (InStdout("Cannot open camera") /\ exitStatus # 0)

\* C5: for a template no larger than the frame, the rectangles drawn are in
\* one-to-one correspondence with the score-surface positions of score >= 0.3:
\* the entry at row y, column x gives one rectangle from (x, y) to
\* (x + template width, y + template height), and nothing else is drawn.
C5_RectanglesAreExactlyTheMatches ==
  (Processed /\ fault = "none" /\ TemplateFits) =>
    LET hits == { p \in DOMAIN res.at : res.at[p] >= threshold }
    IN  /\ res.rows = image.rows - template.rows + 1
        /\ res.cols = image.cols - template.cols + 1
        /\ Len(draws) = Cardinality(hits)
        /\ \A p \in hits :
             \E i \in 1..Len(draws) :
               /\ draws[i].pt1 = <<p[2], p[1]>>
               /\ draws[i].pt2 = <<p[2] + template.cols, p[1] + template.rows>>
        /\ \A i \in 1..Len(draws) :
             /\ <<draws[i].pt1[2], draws[i].pt1[1]>> \in hits
             /\ draws[i].pt2 = <<draws[i].pt1[1] + template.cols,
                                 draws[i].pt1[2] + template.rows>>
C5_Witness ==
  /\ Processed /\ fault = "none" /\ TemplateFits
  /\ template.rows # template.cols
  /\ Len(draws) = 1
  /\ \E p \in DOMAIN res.at : res.at[p] = threshold
  /\ \E p \in DOMAIN res.at : res.at[p] < threshold

\* C6: for one score surface and thresholds t1 <= t2, the Match Set at t2 is
\* a subset of the Match Set at t1, so its size never grows with the threshold.
C6_ThresholdMonotone ==
  Processed =>
    LET ms == << MatchSet(res, Thresholds[1]), MatchSet(res, Thresholds[2]),
                 MatchSet(res, Thresholds[3]), MatchSet(res, Thresholds[4]) >>
    IN  \A i, j \in 1..Len(Thresholds) :
          Thresholds[i] <= Thresholds[j] =>
            /\ ms[j] \subseteq ms[i]
            /\ Cardinality(ms[j]) <= Cardinality(ms[i])
C6_Witness ==
  /\ Processed /\ fault = "none"
  /\ Cardinality(MatchSet(res, threshold + 1)) = 1
  /\ Cardinality(MatchSet(res, threshold)) = 2
  /\ Cardinality(MatchSet(res, threshold - 1)) > 2

\* C7: when the template is larger than the frame in either dimension, the
\* matching operation fails with an InvalidInputError, no Match Set is
\* produced and no rectangle is drawn for that frame.
C7_OversizedTemplateRejected ==
  (calls = pulls /\ success = "True" /\ pc # "process" /\ TemplateTooLarge) =>
    /\ fault = "InvalidInputError"
    /\ matches < calls
    /\ draws = <<>>

\* C8 (as stated): the counter is incremented after the key poll and the
\* sleep, so an iteration ended by q leaves the counter equal to the number
\* of iterations that ran to their end (the number of sleeps).
C8_CounterAfterPollAndSleep ==
  /\ pc = "waitKey" => count = sleeps
  /\ QuitPressed => count = sleeps
\* C8 (amended): the steps of an iteration are pull, match and render,
\* increment the counter, poll the key, sleep; an iteration ended by q has
\* incremented the counter and has not slept, and at exit the counter equals
\* the number of frames displayed.
C8_CounterBeforePoll ==
  /\ pc = "process" => (pulls = count + 1 /\ shown = count /\ polls = count /\ sleeps = count)
  /\ pc = "inc"     => (pulls = count + 1 /\ shown = count + 1 /\ polls = count /\ sleeps = count)
  /\ pc = "waitKey" => (pulls = count /\ shown = count /\ polls = count - 1 /\ sleeps = count - 1)
  /\ pc = "sleep"   => (pulls = count /\ shown = count /\ polls = count /\ sleeps = count - 1)
  /\ pc = "read"    => (pulls = count /\ shown = count /\ polls = count /\ sleeps = count)
  /\ QuitPressed    => (shown = count /\ polls = count /\ sleeps = count - 1)
  /\ pc = "exited"  => count = shown
C8_Witness == QuitPressed /\ count = 2 /\ sleeps = 1

\* C9: the template is loaded exactly once, after the camera was opened and
\* before the first pull, and is never changed: in the loop, the template and
\* the template passed to every matching call are the value obtained at load.
C9_TemplateLoadedOnceAndFixed ==
  /\ loads <= 1
  /\ loads = 1 => vidcapOpened
  /\ pulls > 0 => loads = 1
  /\ pc \in {"read", "process", "inc", "waitKey", "sleep"} =>
       (loads = 1 /\ template = loadedTemplate)
  /\ calls > 0 => passedTemplate = loadedTemplate
C9_Witness ==
  /\ pc = "inc" /\ calls = 2 /\ Len(draws) > 0
  /\ passedTemplate = loadedTemplate /\ loadedTemplate # NoneImg

\* C10 (as stated): when the template load yields no image, the process ends
\* abnormally with an uncaught fault of the first matching call, with no
\* frame displayed and no key poll, never by end of stream or quit.
C10_MissingTemplateAlwaysFaults ==
  (loads = 1 /\ loadedTemplate = NoneImg) =>
    /\ pc \in {"read", "process", "exited"}
    /\ shown = 0 /\ polls = 0
    /\ pc = "exited" => (fault = "AttributeError" /\ exitStatus # 0 /\ ~EndOfStream)
\* C10 (amended): when the template load yields no image, the loop is still
\* entered and the first frame pulled; if that pull succeeds, the first
\* process_image call raises an uncaught fault and the process ends
\* abnormally with no frame displayed and no key poll; if that pull fails,
\* the process ends normally by end of stream.
C10_MissingTemplateFaultsOnFirstFrame ==
  (loads = 1 /\ loadedTemplate = NoneImg) =>
    /\ pc \in {"read", "process", "exited"}
    /\ pc = "read" => pulls = 0
    /\ shown = 0 /\ polls = 0 /\ matches = 0 /\ pulls <= 1
    /\ (pc = "exited" /\ success = "True") =>
         (fault = "AttributeError" /\ exitStatus = UncaughtStatus /\ calls = 1 /\ pulls = 1)
    /\ (pc = "exited" /\ success = "False") => (NormalExit /\ calls = 0)
    /\ pc = "exited" => success # "unbound"
C10_Witness ==
  /\ loadedTemplate = NoneImg /\ pc = "exited" /\ fault = "AttributeError"
  /\ pulls = 1 /\ shown = 0

====
